---- MODULE Spec2Model ----
(***************************************************************************)
(* Model of libfetch: the install/upgrade state machine of Install         *)
(* (src/src/install.rs) over the Downloader (src/src/downloader.rs).       *)
(*                                                                         *)
(* Strings are tuples of one-character strings, so that format!,           *)
(* ends_with and split are computed as the code computes them.  A path     *)
(* below the install directory is a tuple of components; <<>> is the       *)
(* install directory itself.                                               *)
(***************************************************************************)
EXTENDS Naturals, Sequences, FiniteSets

(***************************************************************************)
(* Bounds of the model.                                                    *)
(***************************************************************************)
\* number of install_asset calls in one behaviour
MaxCalls == 3
\* largest retry_count a directly configured Downloader is given
MaxRetry == 4

(***************************************************************************)
(* String helpers.                                                         *)
(***************************************************************************)
\* str::ends_with
EndsWith(s, suf) ==
    /\ Len(s) >= Len(suf)
    /\ SubSeq(s, Len(s) - Len(suf) + 1, Len(s)) = suf

\* str::starts_with
StartsWith(s, pre) ==
    /\ Len(s) >= Len(pre)
    /\ SubSeq(s, 1, Len(pre)) = pre

\* position of the first occurrence of character c in s at or after i; 0 if none
RECURSIVE IndexFrom(_, _, _)
IndexFrom(s, c, i) ==
    IF i > Len(s) THEN 0
    ELSE IF s[i] = c THEN i
    ELSE IndexFrom(s, c, i + 1)

\* str::split(c): the pieces of s between occurrences of c (empty pieces kept)
RECURSIVE Split(_, _)
Split(s, c) ==
    LET i == IndexFrom(s, c, 1)
    IN  IF i = 0 THEN <<s>>
        ELSE <<SubSeq(s, 1, i - 1)>> \o Split(SubSeq(s, i + 1, Len(s)), c)

\* Iterator::next_back on a split: the last piece
LastSegment(s) == LET p == Split(s, "/") IN p[Len(p)]

(***************************************************************************)
(* The strings of the program and of the modelled environment.             *)
(***************************************************************************)
\* "version.json", the version_file of Install::new
VersionFileName == <<"v","e","r","s","i","o","n",".","j","s","o","n">>
\* "https://github.com/"
GithubHost == <<"h","t","t","p","s",":","/","/","g","i","t","h","u","b",".","c","o","m","/">>
\* "/releases/download/"
ReleasesDownload == <<"/","r","e","l","e","a","s","e","s","/","d","o","w","n","l","o","a","d","/">>
TarGzSuffix == <<".","t","a","r",".","g","z">>
ZipSuffix == <<".","z","i","p">>

\* repositories an Install is configured with
RepoAB == <<"a","/","b">>
RepoCD == <<"c","/","d">>
Repos == {RepoAB, RepoCD}
\* release tags of the remote host
TagV1 == <<"v","1">>
TagV2 == <<"v","2">>
Tags == {TagV1, TagV2}
\* tags that need escaping in JSON: v"1 , \ , \"
TagQuoted == <<"v", "\"", "1">>
TagBackslash == <<"\\">>
TagEscaped == <<"\\", "\"">>
\* the empty version spec: "latest"
Empty == <<>>
\* version specs a caller passes: "latest" and an explicit tag
Versions == {Empty, TagV1}
\* asset names a caller passes: a raw file, a zip, a tar.gz
AssetRaw == <<"t">>
AssetZip == <<"a",".","z","i","p">>
AssetTarGz == <<"p",".","t","a","r",".","g","z">>
AssetNames == {AssetRaw, AssetZip, AssetTarGz}

(***************************************************************************)
(* VersionInfo and its JSON text (serde_json of a two-field struct).       *)
(***************************************************************************)
VersionInfo(tag, repo) == [tag_name |-> tag, repo |-> repo]

\* mutant: the text is emitted verbatim
EscapeJson_Verbatim(s) == s

\* serde_json string escaping of the quote and the backslash
RECURSIVE EscapeJson(_)
EscapeJson(s) ==
    IF s = <<>> THEN <<>>
    ELSE IF Head(s) \in {"\"", "\\"}
         THEN <<"\\", Head(s)>> \o EscapeJson(Tail(s))
         ELSE <<Head(s)>> \o EscapeJson(Tail(s))

\* {"tag_name":"
JsonOpen == <<"{","\"","t","a","g","_","n","a","m","e","\"",":","\"">>
\* ","repo":"
JsonMid == <<"\"",",","\"","r","e","p","o","\"",":","\"">>
\* "}
JsonClose == <<"\"","}">>

\* serde_json::to_string(&info)
ToJsonString(info) ==
    JsonOpen \o EscapeJson(info.tag_name) \o JsonMid \o EscapeJson(info.repo) \o JsonClose

\* index of the first unescaped quote of s at or after i; 0 if none
RECURSIVE ClosingQuote(_, _)
ClosingQuote(s, i) ==
    IF i > Len(s) THEN 0
    ELSE IF s[i] = "\\" THEN ClosingQuote(s, i + 2)
    ELSE IF s[i] = "\"" THEN i
    ELSE ClosingQuote(s, i + 1)

\* the text of an escaped JSON string body
RECURSIVE UnescapeJson(_)
UnescapeJson(s) ==
    IF s = <<>> THEN <<>>
    ELSE IF Head(s) = "\\" /\ Len(s) >= 2
         THEN <<s[2]>> \o UnescapeJson(Tail(Tail(s)))
         ELSE <<Head(s)>> \o UnescapeJson(Tail(s))

ParseError == [ok |-> FALSE, info |-> VersionInfo(<<>>, <<>>)]

\* serde_json::from_str::<VersionInfo>(&raw), on the texts the model writes:
\* the two fields in the order to_string emits them, nothing before or after
FromJsonStr(raw) ==
    IF ~StartsWith(raw, JsonOpen) THEN ParseError
    ELSE
    LET r1 == SubSeq(raw, Len(JsonOpen) + 1, Len(raw))
        q1 == ClosingQuote(r1, 1)
    IN  IF q1 = 0 THEN ParseError
        ELSE
        LET r2 == SubSeq(r1, q1, Len(r1))
        IN  IF ~StartsWith(r2, JsonMid) THEN ParseError
            ELSE
            LET r3 == SubSeq(r2, Len(JsonMid) + 1, Len(r2))
                q2 == ClosingQuote(r3, 1)
            IN  IF q2 = 0 \/ SubSeq(r3, q2, Len(r3)) # JsonClose THEN ParseError
                ELSE [ok |-> TRUE,
                      info |-> VersionInfo(UnescapeJson(SubSeq(r1, 1, q1 - 1)),
                                           UnescapeJson(SubSeq(r3, 1, q2 - 1)))]

(***************************************************************************)
(* The install directory: fs.dir says whether it exists, fs.files maps     *)
(* each path below it to [kind, data].                                     *)
(***************************************************************************)
EmptyFiles == [p \in {} |-> [kind |-> "file", data |-> <<>>]]
NoDirectory == [dir |-> FALSE, files |-> EmptyFiles]

DirEntry == [kind |-> "dir", data |-> <<>>]
FileEntry(data) == [kind |-> "file", data |-> data]
LinkEntry(target) == [kind |-> "link", data |-> target]

\* the bytes of a downloaded payload (no valid version record)
PayloadData == <<"#">>

\* what a file holds after the chunks were written to it: one "#" stands for
\* the bytes of one chunk
PayloadBytes(chunks) == [k \in 1..Len(chunks) |-> "#"]

Put(files, p, c) ==
    [q \in (DOMAIN files) \cup {p} |-> IF q = p THEN c ELSE files[q]]

Exists(f, p) == f.dir /\ (p = <<>> \/ p \in DOMAIN f.files)
IsDir(f, p) == f.dir /\ (p = <<>> \/ (p \in DOMAIN f.files /\ f.files[p].kind = "dir"))

\* Path::join(&self.install_path, &self.version_file)
version_file_path == <<VersionFileName>>

\* mutant: the test of the version file is inverted
already_installed_Inverted(f) == ~Exists(f, version_file_path)

\* Path::exists on the version file
already_installed(f) == Exists(f, version_file_path)

\* std::fs::create_dir_all(install_path / p): every missing ancestor is made;
\* fails on an ancestor that exists and is no directory; the ".." of a
\* directory is there already
RECURSIVE CreateDirAll(_, _)
CreateDirAll(f, p) ==
    IF p = <<>> THEN [ok |-> TRUE, fs |-> [f EXCEPT !.dir = TRUE]]
    ELSE
    LET up == CreateDirAll(f, SubSeq(p, 1, Len(p) - 1))
    IN  IF ~up.ok THEN up
        ELSE IF p[Len(p)] = <<".", ".">> THEN up
        ELSE IF p \in DOMAIN up.fs.files
             THEN [ok |-> up.fs.files[p].kind = "dir", fs |-> up.fs]
             ELSE [ok |-> TRUE, fs |-> [up.fs EXCEPT !.files = Put(@, p, DirEntry)]]

\* std::fs::File::create(install_path / p): creates or truncates a regular
\* file; fails on a directory and when the parent is no directory
FileCreate(f, p) ==
    IF p = <<>> \/ IsDir(f, p) \/ ~IsDir(f, SubSeq(p, 1, Len(p) - 1))
    THEN [ok |-> FALSE, fs |-> f]
    ELSE [ok |-> TRUE, fs |-> [f EXCEPT !.files = Put(@, p, FileEntry(<<>>))]]

\* Write::write_all of data into the file opened at p
WriteAll(f, p, data) == [f EXCEPT !.files = Put(@, p, FileEntry(data))]

\* std::fs::read_to_string(install_path / p)
ReadToString(f, p) ==
    IF Exists(f, p) /\ p # <<>> /\ f.files[p].kind = "file"
    THEN [ok |-> TRUE, text |-> f.files[p].data]
    ELSE [ok |-> FALSE, text |-> <<>>]

(***************************************************************************)
(* What the remote host answers to one GET of an asset URL.                *)
(*   net:    "client" (build_client fails, nothing is sent), "transport"   *)
(*           (send fails), "status" (non-success status), "stream" (a      *)
(*           chunk of the body fails), "ok"                                *)
(*   body:   the payload: [format, entries]                                *)
(*   failAt: the archive entry at which an I/O or decoding error strikes   *)
(*           (Len(entries) + 1: none)                                      *)
(*   chunks: the lengths in bytes of the chunks the body stream yields     *)
(*           before it ends ("ok") or yields an error ("stream")           *)
(***************************************************************************)
NetOutcomes == {"client", "transport", "status", "stream", "ok"}

\* 100 * 1024 * 1024, the reporting step of download_bytes
ProgressStep == 104857600
\* chunk lengths: a small chunk, and one of 60 MiB
ChunkSmall == 1
ChunkBig == 62914560
\* 40 MiB, which fills 60 MiB up to the reporting step, and 210 MiB
ChunkRest == 41943040
ChunkHuge == 220200960

ZipEntry(name) == [name |-> name]
TarEntry(path, type, link) == [path |-> path, type |-> type, link |-> link]

\* a payload that is no archive
BodyOther == [format |-> "other", entries |-> <<>>]
\* zip: b/ , b/t
BodyZip1 == [format |-> "zip",
             entries |-> << ZipEntry(<<"b","/">>), ZipEntry(<<"b","/","t">>) >>]
\* tar.gz: k/ , k/b/t
BodyTar1 == [format |-> "targz",
             entries |-> << TarEntry(<<"k","/">>, "Directory", <<>>),
                            TarEntry(<<"k","/","b","/","t">>, "Regular", <<>>) >>]
Bodies == {BodyOther, BodyZip1, BodyTar1}

\* the answers to the GET of an install_asset call: the body in one chunk
Responses ==
    {[net |-> n, body |-> BodyOther, failAt |-> 1, chunks |-> <<>>]
        : n \in NetOutcomes \ {"ok"}}
    \cup
    UNION {{[net |-> "ok", body |-> b, failAt |-> k, chunks |-> <<ChunkSmall>>]
                : k \in 1..(Len(b.entries) + 1)}
           : b \in Bodies}

(***************************************************************************)
(* Downloader: URL construction and the fetch pipeline.                    *)
(***************************************************************************)
\* mutant: the version and the asset name change places
get_release_asset_url_by_version_Swapped(repo, asset_name, version) ==
    GithubHost \o repo \o ReleasesDownload \o asset_name \o <<"/">> \o version

\* format!("https://github.com/{}/releases/download/{}/{}", repo, version, asset_name)
get_release_asset_url_by_version(repo, asset_name, version) ==
    GithubHost \o repo \o ReleasesDownload \o version \o <<"/">> \o asset_name

\* mutant: the test of ".tar.gz" is missing
ArchiveKind_NoTarGz(url) ==
    IF EndsWith(url, ZipSuffix) THEN "Zip" ELSE "Raw"

\* the three-way dispatch of fetch on the URL suffix
ArchiveKind(url) ==
    IF EndsWith(url, TarGzSuffix) THEN "TarGz"
    ELSE IF EndsWith(url, ZipSuffix) THEN "Zip"
    ELSE "Raw"

\* whether the GET of the asset URL is sent at all
RequestSent(resp) == resp.net # "client"

\* mutant: the status of the response is not looked at
download_bytes_ok_AnyStatus(resp) == resp.net \in {"ok", "status"}

\* download_bytes: Ok(bytes) only when status and every chunk are fine
download_bytes_ok(resp) == resp.net = "ok"

\* Path::new(dest).join(filename), relative to dest; joining "" names dest itself
JoinName(filename) == IF filename = <<>> THEN <<>> ELSE <<filename>>

\* download_raw: [ok, fs]
download_raw(f, url, resp) ==
    LET filename  == LastSegment(url)
        dest_path == JoinName(filename)
        made      == CreateDirAll(f, <<>>)
    IN  IF ~made.ok THEN [ok |-> FALSE, fs |-> made.fs]
        ELSE IF resp.net \in {"client", "transport", "status"}
        THEN [ok |-> FALSE, fs |-> made.fs]
        ELSE
        LET created == FileCreate(made.fs, dest_path)
        IN  IF ~created.ok THEN [ok |-> FALSE, fs |-> made.fs]
            ELSE [ok |-> resp.net = "ok",
                  fs |-> WriteAll(created.fs, dest_path, PayloadBytes(resp.chunks))]

\* the Normal components of a '/'-separated name
NormalComponents(name) ==
    SelectSeq(Split(name, "/"), LAMBDA c : c \notin {<<>>, <<".">>, <<".", ".">>})

\* zip::read::ZipFile::mangled_name: only the Normal components are kept
mangled_name(name) == NormalComponents(name)

\* the body of the zip loop for one entry: [ok, fs]
ExtractZipEntry(f, e) ==
    LET outpath == mangled_name(e.name)
    IN  IF EndsWith(e.name, <<"/">>) THEN CreateDirAll(f, outpath)
        ELSE
        LET parent  == IF outpath = <<>> THEN [ok |-> TRUE, fs |-> f]
                       ELSE CreateDirAll(f, SubSeq(outpath, 1, Len(outpath) - 1))
        IN  IF ~parent.ok THEN parent
            ELSE
            LET created == FileCreate(parent.fs, outpath)
            IN  IF ~created.ok THEN [ok |-> FALSE, fs |-> parent.fs]
                ELSE [ok |-> TRUE, fs |-> WriteAll(created.fs, outpath, PayloadData)]

\* mutant: the failing entry is left out and the loop goes on
RECURSIVE ExtractZipEntries_SkipsFailed(_, _, _, _)
ExtractZipEntries_SkipsFailed(f, entries, i, failAt) ==
    IF i > Len(entries) THEN [ok |-> failAt > Len(entries), fs |-> f]
    ELSE IF i = failAt THEN ExtractZipEntries_SkipsFailed(f, entries, i + 1, failAt)
    ELSE
    LET r == ExtractZipEntry(f, entries[i])
    IN  IF ~r.ok THEN r ELSE ExtractZipEntries_SkipsFailed(r.fs, entries, i + 1, failAt)

\* for i in 0..archive.len(): the first failing entry aborts the rest
RECURSIVE ExtractZipEntries(_, _, _, _)
ExtractZipEntries(f, entries, i, failAt) ==
    IF i > Len(entries) THEN [ok |-> TRUE, fs |-> f]
    ELSE IF i = failAt THEN [ok |-> FALSE, fs |-> f]
    ELSE
    LET r == ExtractZipEntry(f, entries[i])
    IN  IF ~r.ok THEN r ELSE ExtractZipEntries(r.fs, entries, i + 1, failAt)

\* download_and_extract_zip: [ok, fs]
download_and_extract_zip(f, url, resp) ==
    IF ~download_bytes_ok(resp) THEN [ok |-> FALSE, fs |-> f]
    ELSE
    LET made == CreateDirAll(f, <<>>)
    IN  IF ~made.ok \/ resp.body.format # "zip" THEN [ok |-> FALSE, fs |-> made.fs]
        ELSE ExtractZipEntries(made.fs, resp.body.entries, 1, resp.failAt)

\* std::path::Path::components of an entry path: a leading "/" is the root
\* component, "." survives only in front, ".." is kept
PathComponents(path) ==
    LET parts == Split(path, "/")
        kept  == SelectSeq(parts, LAMBDA c : c \notin {<<>>, <<".">>})
    IN  IF path # <<>> /\ Head(path) = "/" THEN <<<<"/">>>> \o kept
        ELSE IF parts[1] = <<".">> THEN <<<<".">>>> \o kept
        ELSE kept

\* mutant: no component is skipped
StripTopLevel_Unstripped(path) == PathComponents(path)

\* path.components().skip(1).collect()
StripTopLevel(path) ==
    LET c == PathComponents(path) IN IF c = <<>> THEN <<>> ELSE Tail(c)

\* the body of the tar loop for one entry: [ok, fs]
ExtractTarEntry(f, e) ==
    LET stripped == StripTopLevel(e.path)
        outpath  == stripped
    IN  IF stripped = <<>> THEN [ok |-> TRUE, fs |-> f]
        ELSE IF e.type = "Directory" THEN CreateDirAll(f, outpath)
        ELSE IF e.type = "Symlink"
        THEN \* symlink(..).ok(): a failure is swallowed
             IF Exists(f, outpath) \/ ~IsDir(f, SubSeq(outpath, 1, Len(outpath) - 1))
             THEN [ok |-> TRUE, fs |-> f]
             ELSE [ok |-> TRUE, fs |-> [f EXCEPT !.files = Put(@, outpath, LinkEntry(e.link))]]
        ELSE
        LET parent == CreateDirAll(f, SubSeq(outpath, 1, Len(outpath) - 1))
        IN  IF ~parent.ok THEN parent
            ELSE IF IsDir(parent.fs, outpath) THEN [ok |-> FALSE, fs |-> parent.fs]
            ELSE [ok |-> TRUE, fs |-> WriteAll(parent.fs, outpath, PayloadData)]

\* for entry in archive.entries(): the first failing entry aborts the rest
RECURSIVE ExtractTarEntries(_, _, _, _)
ExtractTarEntries(f, entries, i, failAt) ==
    IF i > Len(entries) THEN [ok |-> TRUE, fs |-> f]
    ELSE IF i = failAt THEN [ok |-> FALSE, fs |-> f]
    ELSE
    LET r == ExtractTarEntry(f, entries[i])
    IN  IF ~r.ok THEN r ELSE ExtractTarEntries(r.fs, entries, i + 1, failAt)

\* download_and_extract_tar_gz: [ok, fs]
download_and_extract_tar_gz(f, url, resp) ==
    IF ~download_bytes_ok(resp) THEN [ok |-> FALSE, fs |-> f]
    ELSE
    LET made == CreateDirAll(f, <<>>)
    IN  IF ~made.ok \/ resp.body.format # "targz" THEN [ok |-> FALSE, fs |-> made.fs]
        ELSE ExtractTarEntries(made.fs, resp.body.entries, 1, resp.failAt)

\* downloaded after the first k chunks
RECURSIVE Downloaded(_, _)
Downloaded(chunks, k) ==
    IF k = 0 THEN 0 ELSE Downloaded(chunks, k - 1) + chunks[k]

\* one call of the progress callback (the throughput and the declared total
\* are left out: they depend on the clock and on a header only)
ProgressEvent(src, downloaded, complete) ==
    [src |-> src, downloaded |-> downloaded, complete |-> complete]

\* mutant: no final call is made
FinalProgress_None(url, resp) == <<>>

\* the final call of either download loop, made when the stream has ended
FinalProgress(url, resp) ==
    IF resp.net = "ok"
    THEN <<ProgressEvent(url, Downloaded(resp.chunks, Len(resp.chunks)), TRUE)>>
    ELSE <<>>

\* the progress calls of download_raw: one after every chunk written
download_raw_progress(f, url, resp) ==
    LET made == CreateDirAll(f, <<>>)
    IN  IF ~made.ok \/ resp.net \in {"client", "transport", "status"}
           \/ ~FileCreate(made.fs, JoinName(LastSegment(url))).ok
        THEN <<>>
        ELSE [k \in 1..Len(resp.chunks) |->
                 ProgressEvent(url, Downloaded(resp.chunks, k), FALSE)]
             \o FinalProgress(url, resp)

\* mutant: a chunk is reported when the count is a multiple of the step
ReportsChunk_OnMultiple(chunks, k) == (Downloaded(chunks, k) % ProgressStep) = 0

\* downloaded % (100 * 1024 * 1024) < chunks.last().len(), after chunk k
ReportsChunk(chunks, k) == (Downloaded(chunks, k) % ProgressStep) < chunks[k]

\* the non-final progress calls of download_bytes for the chunks from k on
RECURSIVE BytesProgressFrom(_, _, _)
BytesProgressFrom(url, chunks, k) ==
    IF k > Len(chunks) THEN <<>>
    ELSE (IF ReportsChunk(chunks, k)
          THEN <<ProgressEvent(url, Downloaded(chunks, k), FALSE)>>
          ELSE <<>>)
         \o BytesProgressFrom(url, chunks, k + 1)

\* the progress calls of download_bytes
download_bytes_progress(url, resp) ==
    IF resp.net \in {"client", "transport", "status"} THEN <<>>
    ELSE BytesProgressFrom(url, resp.chunks, 1) \o FinalProgress(url, resp)

\* the progress calls of one fetch, in order; none without a callback
fetch_progress(f, url, resp, progress) ==
    IF ~progress THEN <<>>
    ELSE IF ArchiveKind(url) = "Raw" THEN download_raw_progress(f, url, resp)
    ELSE download_bytes_progress(url, resp)

\* fetch: [ok, fs]
fetch(f, url, resp) ==
    IF ArchiveKind(url) = "TarGz" THEN download_and_extract_tar_gz(f, url, resp)
    ELSE IF ArchiveKind(url) = "Zip" THEN download_and_extract_zip(f, url, resp)
    ELSE download_raw(f, url, resp)

\* the host serves the whole payload in the format the URL names, and no
\* I/O error strikes while it is unpacked
Served(url, resp) ==
    /\ resp.net = "ok"
    /\ \/ ArchiveKind(url) = "Raw"
       \/ /\ resp.body.format = (IF ArchiveKind(url) = "Zip" THEN "zip" ELSE "targz")
          /\ resp.failAt = Len(resp.body.entries) + 1

\* whether fetch got as far as unpacking an archive
ExtractionStarted(url, resp) ==
    /\ ArchiveKind(url) # "Raw"
    /\ download_bytes_ok(resp)

\* whether the payload was opened as the archive the URL names, so that the
\* loop over its entries ran
Unpacked(url, resp) ==
    /\ ExtractionStarted(url, resp)
    /\ resp.body.format = (IF ArchiveKind(url) = "Zip" THEN "zip" ELSE "targz")

(***************************************************************************)
(* State.                                                                  *)
(***************************************************************************)
VARIABLES
    fs,      \* the install directory on disk
    pc,      \* position of the one running operation
    call,    \* the running (or last finished) install_asset call
    prev,    \* summary of the install_asset call before it
    lv,      \* the locals of latest_version
    ncalls,  \* install_asset calls made so far
    ever_installed  \* some fresh install or upgrade has returned Ok

vars == <<fs, pc, call, prev, lv, ncalls, ever_installed>>

\* retry_count of the Downloader that Install::new builds
DefaultRetryCount == 3

\* failure classes of one get_latest_version attempt
ErrKinds == {"client", "transport", "status", "parse"}

NoInfo == VersionInfo(<<>>, <<>>)

\* no get_installed_version has returned to the caller yet
NoRead == [done |-> FALSE, existed |-> FALSE, ok |-> FALSE, err |-> <<>>, info |-> NoInfo]

NoCall ==
    [repo |-> <<>>, asset_name |-> <<>>, version |-> <<>>, allow_upgrade |-> FALSE,
     path |-> "none", api |-> 0, dl |-> 0, ex |-> 0, rm |-> 0, wr |-> 0,
     pre |-> NoDirectory, result |-> <<"none">>,
     version_info |-> NoInfo, checked |-> <<>>, latest |-> <<>>, url |-> <<>>,
     resolved |-> <<>>, resolutions |-> <<>>, fetch_ok |-> FALSE, served |-> FALSE,
     progress |-> FALSE, events |-> <<>>, net |-> "", chunks |-> <<>>,
     entries |-> <<>>, failAt |-> 0, got |-> NoRead]

NoPrev ==
    [path |-> "none", allow_upgrade |-> FALSE, installed_before |-> FALSE,
     result |-> "none", stage |-> "", dl |-> 0, ex |-> 0, rm |-> 0, wr |-> 0]

\* what is remembered of a finished call when the next one starts
Summary(c) ==
    [path |-> c.path, allow_upgrade |-> c.allow_upgrade,
     installed_before |-> Exists(c.pre, version_file_path),
     result |-> c.result[1], stage |-> IF Len(c.result) >= 2 THEN c.result[2] ELSE "",
     dl |-> c.dl, ex |-> c.ex, rm |-> c.rm, wr |-> c.wr]

LvIdle ==
    [retry_count |-> 0, i |-> 0, attempts |-> 0, sleeps |-> 0,
     last_err |-> "", last_fail |-> "", result |-> <<"none">>, cont |-> "none"]

\* entry of latest_version: last_err = String::new(), the loop at 0
LvStart(n, cont) ==
    [retry_count |-> n, i |-> 0, attempts |-> 0, sleeps |-> 0,
     last_err |-> "", last_fail |-> "", result |-> <<"running">>, cont |-> cont]

Ok == <<"ok">>
Err(parts) == <<"err">> \o parts
IsOk(r) == r = Ok
IsErr(r) == r[1] = "err"
\* the message of an error contains the part
Contains(r, part) == \E k \in 2..Len(r) : r[k] = part

Init ==
    /\ fs = NoDirectory
    /\ pc = "idle"
    /\ call = NoCall
    /\ prev = NoPrev
    /\ lv = LvIdle
    /\ ncalls = 0
    /\ ever_installed = FALSE

(***************************************************************************)
(* Downloader::latest_version.                                             *)
(***************************************************************************)
\* mutant: a non-success status ends the loop
LvOnErr_StatusFatal(l, e) ==
    [l EXCEPT !.last_err = e, !.sleeps = @ + 1,
              !.i = IF e = "status" THEN l.retry_count ELSE @ + 1,
              !.attempts = @ + 1, !.last_fail = e]

\* the loop body on Err(e): last_err = e; sleep(retry_delay)
LvOnErr(l, e) ==
    [l EXCEPT !.last_err = e, !.sleeps = @ + 1, !.i = @ + 1,
              !.attempts = @ + 1, !.last_fail = e]

\* the loop body on Ok(v): return Ok(v)
LvOnOk(l, v) ==
    [l EXCEPT !.attempts = @ + 1, !.result = <<"ok", v>>]

\* mutant: the range is inclusive, 0..=self.retry_count
LvMore_Inclusive(l) == l.i <= l.retry_count

\* the loop condition of for _ in 0..self.retry_count
LvMore(l) == l.i < l.retry_count

\* Err(format!("unable to fetch latest version: {last_err}"))
LvError(l) == Err(<<"unable to fetch latest version", l.last_err>>)

\* one get_latest_version attempt that fails with class e
LvAttemptFail ==
    /\ pc = "lv"
    /\ LvMore(lv)
    /\ \E e \in ErrKinds :
        /\ lv' = LvOnErr(lv, e)
        /\ call' = IF call.result = <<"running">> /\ e # "client"
                   THEN [call EXCEPT !.api = 1] ELSE call
    /\ UNCHANGED <<fs, pc, prev, ncalls, ever_installed>>

\* one get_latest_version attempt that returns the tag_name of the release
\* that is the latest on the remote host when the request is served
LvAttemptOk ==
    /\ pc = "lv"
    /\ LvMore(lv)
    /\ \E t \in Tags :
        /\ lv' = LvOnOk(lv, t)
        /\ call' = IF call.result = <<"running">>
                   THEN [call EXCEPT !.api = 1, !.resolutions = Append(@, t)]
                   ELSE call
    /\ pc' = "lv_ret"
    /\ UNCHANGED <<fs, prev, ncalls, ever_installed>>

\* the loop ends without a success
LvExhausted ==
    /\ pc = "lv"
    /\ ~LvMore(lv)
    /\ lv' = [lv EXCEPT !.result = LvError(lv)]
    /\ pc' = "lv_ret"
    /\ UNCHANGED <<fs, call, prev, ncalls, ever_installed>>

\* a caller uses Downloader::latest_version directly, with its own retry_count
LatestVersionCall ==
    /\ pc = "idle"
    /\ \E n \in 0..MaxRetry : lv' = LvStart(n, "direct")
    /\ pc' = "lv"
    /\ UNCHANGED <<fs, call, prev, ncalls, ever_installed>>

LatestVersionReturn ==
    /\ pc = "lv_ret"
    /\ lv.cont = "direct"
    /\ lv' = LvIdle
    /\ pc' = "idle"
    /\ UNCHANGED <<fs, call, prev, ncalls, ever_installed>>

(***************************************************************************)
(* Install::install_asset and what it calls.                               *)
(***************************************************************************)
\* the call returns r to its caller (its locals are dropped)
Finish(c, r) ==
    /\ call' = [c EXCEPT !.result = r, !.asset_name = <<>>, !.version_info = NoInfo]
    /\ pc' = "idle"
    /\ lv' = LvIdle
    /\ ever_installed' = (ever_installed \/ (r = Ok /\ c.path \in {"fresh", "upgrade"}))

\* the call awaits self.downloader.latest_version(); cont names the caller
AwaitLatestVersion(c, cont) ==
    /\ call' = c
    /\ lv' = LvStart(DefaultRetryCount, cont)
    /\ pc' = "lv"
    /\ ever_installed' = ever_installed

\* the asset_name argument of the running download_asset
DownloadName(c) == IF c.path = "upgrade" THEN <<>> ELSE c.asset_name

\* download_asset up to its first await: the URL by version, or latest_version
BeginDownloadAsset(c, asset_name, version) ==
    IF version = Empty
    THEN AwaitLatestVersion(c, "url")
    ELSE /\ call' = [c EXCEPT !.url =
                        get_release_asset_url_by_version(c.repo, asset_name, version)]
         /\ pc' = "fetch"
         /\ lv' = LvIdle
         /\ ever_installed' = ever_installed

\* mutant: the repository of the record is not compared
is_latest_check_NoRepoCheck(f, repo) ==
    LET raw == ReadToString(f, version_file_path)
    IN  IF ~raw.ok
        THEN [ok |-> FALSE, err |-> <<"error reading version info file">>, info |-> NoInfo]
        ELSE
        LET parsed == FromJsonStr(raw.text)
        IN  IF ~parsed.ok
            THEN [ok |-> FALSE, err |-> <<"error parsing version info">>, info |-> NoInfo]
            ELSE [ok |-> TRUE, err |-> <<>>, info |-> parsed.info]

\* mutant: a record that does not parse is taken as one of this repository
is_latest_check_Lenient(f, repo) ==
    LET raw == ReadToString(f, version_file_path)
        parsed == FromJsonStr(raw.text)
    IN  IF raw.ok /\ parsed.ok /\ parsed.info.repo # repo
        THEN [ok |-> FALSE,
              err |-> <<"installed version is for a different repository">>,
              info |-> parsed.info]
        ELSE [ok |-> TRUE, err |-> <<>>,
              info |-> IF raw.ok /\ parsed.ok THEN parsed.info ELSE VersionInfo(<<>>, repo)]

\* is_latest_version before its await: read, parse, repository check
is_latest_check(f, repo) ==
    LET raw == ReadToString(f, version_file_path)
    IN  IF ~raw.ok
        THEN [ok |-> FALSE, err |-> <<"error reading version info file">>, info |-> NoInfo]
        ELSE
        LET parsed == FromJsonStr(raw.text)
        IN  IF ~parsed.ok
            THEN [ok |-> FALSE, err |-> <<"error parsing version info">>, info |-> NoInfo]
            ELSE IF parsed.info.repo # repo
            THEN [ok |-> FALSE,
                  err |-> <<"installed version is for a different repository">>,
                  info |-> parsed.info]
            ELSE [ok |-> TRUE, err |-> <<>>, info |-> parsed.info]

\* get_installed_version: read and parse, the repository is not compared
get_installed_version(f) ==
    LET raw == ReadToString(f, version_file_path)
    IN  IF ~raw.ok
        THEN [ok |-> FALSE, err |-> <<"error reading version info file">>, info |-> NoInfo]
        ELSE
        LET parsed == FromJsonStr(raw.text)
        IN  IF ~parsed.ok
            THEN [ok |-> FALSE, err |-> <<"error parsing version info">>, info |-> NoInfo]
            ELSE [ok |-> TRUE, err |-> <<>>, info |-> parsed.info]

\* mutant: the test of allow_upgrade is inverted
SkipsUpgradeCheck_Inverted(allow_upgrade) == allow_upgrade

\* the branch of install_asset taken for allow_upgrade on an installed directory
SkipsUpgradeCheck(allow_upgrade) == ~allow_upgrade

\* install_asset up to its first await
InstallAsset ==
    /\ pc = "idle"
    /\ ncalls < MaxCalls
    /\ \E repo \in Repos, a \in AssetNames, v \in Versions, allow \in BOOLEAN :
        LET c0 == [NoCall EXCEPT !.repo = repo, !.asset_name = a, !.version = v,
                                 !.allow_upgrade = allow, !.pre = fs,
                                 !.progress = TRUE,
                                 !.result = <<"running">>]
        IN  IF already_installed(fs)
            THEN IF SkipsUpgradeCheck(allow)
                 THEN Finish([c0 EXCEPT !.path = "noop"], Ok)
                 ELSE
                 LET chk == is_latest_check(fs, repo)
                 IN  IF ~chk.ok
                     THEN Finish([c0 EXCEPT !.path = "check", !.version_info = chk.info],
                                 Err(chk.err))
                     ELSE AwaitLatestVersion(
                              [c0 EXCEPT !.path = "check", !.version_info = chk.info],
                              "is_latest")
            ELSE BeginDownloadAsset([c0 EXCEPT !.path = "fresh"], a, v)
    /\ prev' = Summary(call)
    /\ ncalls' = ncalls + 1
    /\ UNCHANGED fs

\* mutant: the latest tag is compared with the wrong field
IsLatest_WrongField(latest, version_info) == latest = version_info.repo

\* latest == version_info.tag_name
IsLatest(latest, version_info) == latest = version_info.tag_name

\* the names directly below the install directory
TopNames(f) == {p[1] : p \in DOMAIN f.files}

\* the directory after the subtrees below the names in S are gone
Without(f, S) ==
    [f EXCEPT !.files = [p \in {q \in DOMAIN f.files : q[1] \notin S} |-> f.files[p]]]

\* mutant: the old payload is removed, the version file is kept
RemoveDirAll_KeepsVersionFile(f) == Without(f, TopNames(f) \ {VersionFileName})

\* std::fs::remove_dir_all(install_path), when it succeeds
RemoveDirAll(f) == NoDirectory

\* is_latest_version after its await, then install_asset's decision and
\* upgrade_asset up to its first await.  remove_dir_all may fail part-way: with
\* nothing removed yet, or with everything below the directory removed
ReturnIsLatest ==
    /\ pc = "lv_ret"
    /\ lv.cont = "is_latest"
    /\ IF IsErr(lv.result)
       THEN /\ Finish(call, Err(<<"error getting latest version">> \o Tail(lv.result)))
            /\ fs' = fs
       ELSE
       LET c1 == [call EXCEPT !.checked = lv.result[2]]
       IN  IF IsLatest(lv.result[2], call.version_info)
           THEN /\ Finish(c1, Ok)
                /\ fs' = fs
           ELSE IF ~Exists(fs, <<>>)
           THEN /\ AwaitLatestVersion([c1 EXCEPT !.path = "upgrade"], "upgrade")
                /\ fs' = fs
           ELSE \/ /\ fs' = RemoveDirAll(fs)
                   /\ AwaitLatestVersion([c1 EXCEPT !.path = "upgrade", !.rm = @ + 1],
                                         "upgrade")
                \/ \E S \in {{}, TopNames(fs)} :
                    /\ fs' = Without(fs, S)
                    /\ Finish([c1 EXCEPT !.path = "upgrade"],
                              Err(<<"error removing old installation">>))
    /\ UNCHANGED <<prev, ncalls>>

\* upgrade_asset after latest_version, into download_asset("", latest, ..)
ReturnUpgrade ==
    /\ pc = "lv_ret"
    /\ lv.cont = "upgrade"
    /\ IF IsErr(lv.result)
       THEN Finish(call, Err(<<"error getting latest version">> \o Tail(lv.result)))
       ELSE BeginDownloadAsset([call EXCEPT !.latest = lv.result[2]], <<>>, lv.result[2])
    /\ UNCHANGED <<fs, prev, ncalls>>

\* get_release_asset_url after latest_version, into fetch
ReturnUrl ==
    /\ pc = "lv_ret"
    /\ lv.cont = "url"
    /\ IF IsErr(lv.result)
       THEN Finish(call, Err(<<"error downloading asset">> \o Tail(lv.result)))
       ELSE /\ call' = [call EXCEPT !.url =
                           get_release_asset_url_by_version(
                               call.repo, DownloadName(call), lv.result[2])]
            /\ pc' = "fetch"
            /\ lv' = LvIdle
            /\ ever_installed' = ever_installed
    /\ UNCHANGED <<fs, prev, ncalls>>

\* the version create_version_file is given once the download is done
\* (None: it has to be resolved by latest_version first)
VersionToPersist(c) ==
    IF c.path = "upgrade" THEN c.latest ELSE c.version

\* the call c after fetch(c.url, dest) was answered resp on directory f and
\* returned r: what was requested, unpacked and reported
Fetched(c, f, resp, r) ==
    [c EXCEPT
        !.dl = @ + (IF RequestSent(resp) THEN 1 ELSE 0),
        !.ex = @ + (IF ExtractionStarted(c.url, resp) THEN 1 ELSE 0),
        !.fetch_ok = r.ok,
        !.served = Served(c.url, resp),
        !.events = @ \o fetch_progress(f, c.url, resp, c.progress),
        !.net = resp.net,
        !.chunks = resp.chunks,
        !.entries = IF Unpacked(c.url, resp) THEN resp.body.entries ELSE <<>>,
        !.failAt = IF Unpacked(c.url, resp) THEN resp.failAt ELSE 0]

\* fetch(url, dest) and the caller's handling of its result
Fetch ==
    /\ pc = "fetch"
    /\ \E resp \in Responses :
        LET r  == fetch(fs, call.url, resp)
            c1 == Fetched(call, fs, resp, r)
        IN  /\ fs' = r.fs
            /\ IF ~r.ok
               THEN Finish(c1, Err(<<"error downloading asset">>))
               ELSE IF c1.path = "fresh" /\ c1.version = Empty
               THEN AwaitLatestVersion(c1, "resolve")
               ELSE /\ call' = [c1 EXCEPT !.resolved = VersionToPersist(c1)]
                    /\ pc' = "cvf"
                    /\ lv' = LvIdle
                    /\ ever_installed' = ever_installed
    /\ UNCHANGED <<prev, ncalls>>

\* initial_install_asset after resolving the version of a "latest" install
ReturnResolve ==
    /\ pc = "lv_ret"
    /\ lv.cont = "resolve"
    /\ IF IsErr(lv.result)
       THEN Finish(call, Err(<<"error getting latest version">> \o Tail(lv.result)))
       ELSE /\ call' = [call EXCEPT !.resolved = lv.result[2]]
            /\ pc' = "cvf"
            /\ lv' = LvIdle
            /\ ever_installed' = ever_installed
    /\ UNCHANGED <<fs, prev, ncalls>>

\* mutant: the version spec is written as given, unresolved
VersionFileText_Unresolved(c) == ToJsonString(VersionInfo(c.version, c.repo))

\* the text create_version_file writes
VersionFileText(c) == ToJsonString(VersionInfo(c.resolved, c.repo))

\* the lengths write_all may have written when it returns: all but the last
\* byte (with an error), everything
WrittenLengths(text) == {Len(text) - 1, Len(text)}

\* create_version_file up to the opening of the file: create_dir_all, then
\* std::fs::write opens version.json with create + truncate
CreateVersionFileOpen ==
    /\ pc = "cvf"
    /\ LET made    == CreateDirAll(fs, <<>>)
           created == FileCreate(made.fs, version_file_path)
       IN  IF ~made.ok
           THEN /\ fs' = made.fs
                /\ Finish(call, Err(<<"error creating install directory">>))
           ELSE IF ~created.ok
           THEN /\ fs' = made.fs
                /\ Finish(call, Err(<<"error writing version info">>))
           ELSE /\ fs' = created.fs
                /\ call' = [call EXCEPT !.wr = @ + 1]
                /\ pc' = "cvf_write"
                /\ lv' = lv
                /\ ever_installed' = ever_installed
    /\ UNCHANGED <<prev, ncalls>>

\* std::fs::write writes the text into the opened file
CreateVersionFileWrite ==
    /\ pc = "cvf_write"
    /\ \E n \in WrittenLengths(VersionFileText(call)) :
        /\ fs' = WriteAll(fs, version_file_path, SubSeq(VersionFileText(call), 1, n))
        /\ IF n = Len(VersionFileText(call))
           THEN Finish(call, Ok)
           ELSE Finish(call, Err(<<"error writing version info">>))
    /\ UNCHANGED <<prev, ncalls>>

Next ==
    \/ LvAttemptFail
    \/ LvAttemptOk
    \/ LvExhausted
    \/ InstallAsset
    \/ ReturnIsLatest
    \/ ReturnUpgrade
    \/ ReturnUrl
    \/ Fetch
    \/ ReturnResolve
    \/ CreateVersionFileOpen
    \/ CreateVersionFileWrite

Spec == Init /\ [][Next]_vars

(***************************************************************************)
(* A caller that uses the Downloader alone: latest_version with every      *)
(* retry_count up to MaxRetry.                                             *)
(***************************************************************************)
NextRetry ==
    \/ LatestVersionCall
    \/ LvAttemptFail
    \/ LvAttemptOk
    \/ LvExhausted
    \/ LatestVersionReturn

SpecRetry == Init /\ [][NextRetry]_vars

(***************************************************************************)
(* A caller that uses the Downloader alone: download_asset of an explicit  *)
(* version into directories in several conditions, answered by bodies in   *)
(* several chunkings.                                                      *)
(***************************************************************************)
\* number of download_asset calls in one behaviour
MaxFetches == 2

\* an asset whose name is that of the version file
AssetVersionFile == VersionFileName
FetchAssetNames == {AssetRaw, AssetZip, AssetTarGz, AssetVersionFile, Empty}

\* the destination before the first call: missing, empty, holding an
\* installation of a/b at v1, holding a regular file b
EmptyDir == [dir |-> TRUE, files |-> EmptyFiles]
InstalledDir ==
    [dir |-> TRUE,
     files |-> Put(EmptyFiles, version_file_path,
                   FileEntry(ToJsonString(VersionInfo(TagV1, RepoAB))))]
OccupiedDir ==
    [dir |-> TRUE, files |-> Put(EmptyFiles, <<<<"b">>>>, FileEntry(PayloadData))]
FetchDirs == {NoDirectory, EmptyDir, InstalledDir, OccupiedDir}

\* tar.gz: k/b -> t (symlink), t
BodyTar2 == [format |-> "targz",
             entries |-> << TarEntry(<<"k","/","b">>, "Symlink", <<"t">>),
                            TarEntry(<<"t">>, "Regular", <<>>) >>]
\* tar.gz: k/version.json
BodyTarV == [format |-> "targz",
             entries |-> << TarEntry(<<"k","/">> \o VersionFileName, "Regular", <<>>) >>]
\* tar.gz: k/../x
BodyTarUp == [format |-> "targz",
              entries |-> << TarEntry(<<"k","/",".",".","/","x">>, "Regular", <<>>) >>]
\* zip: version.json
BodyZipV == [format |-> "zip", entries |-> << ZipEntry(VersionFileName) >>]
FetchBodies == {BodyOther, BodyZip1, BodyTar1, BodyTar2, BodyTarV, BodyTarUp, BodyZipV}

\* the chunkings of a served body; only a payload that is no archive can be empty
ChunkSeqs(b) ==
    {<<ChunkSmall>>, <<ChunkBig, ChunkBig>>, <<ChunkBig, ChunkSmall, ChunkBig>>,
     <<ChunkBig, ChunkRest, ChunkSmall>>, <<ChunkHuge>>}
    \cup (IF b.format = "other" THEN {<<>>} ELSE {})

\* the answers to the GET of a download_asset call; a non-success status
\* comes with a body of its own
FetchResponses ==
    {[net |-> n, body |-> BodyOther, failAt |-> 1, chunks |-> <<>>]
        : n \in {"client", "transport"}}
    \cup
    {[net |-> "status", body |-> b, failAt |-> Len(b.entries) + 1,
      chunks |-> <<ChunkSmall>>] : b \in {BodyOther, BodyZip1, BodyTar1}}
    \cup
    {[net |-> "stream", body |-> BodyOther, failAt |-> 1, chunks |-> c]
        : c \in {<<>>, <<ChunkBig, ChunkBig>>}}
    \cup
    UNION {{[net |-> "ok", body |-> b, failAt |-> k, chunks |-> c]
                : k \in 1..(Len(b.entries) + 1), c \in ChunkSeqs(b)}
           : b \in FetchBodies}

InitFetch ==
    /\ fs \in FetchDirs
    /\ pc = "idle"
    /\ call = NoCall
    /\ prev = NoPrev
    /\ lv = LvIdle
    /\ ncalls = 0
    /\ ever_installed = FALSE

\* downloader.download_asset(a, v, dest) up to fetch, with or without a
\* progress callback
DownloadAssetCall ==
    /\ pc = "idle"
    /\ ncalls < MaxFetches
    /\ \E repo \in Repos, a \in FetchAssetNames, v \in Tags, progress \in BOOLEAN :
        BeginDownloadAsset(
            [NoCall EXCEPT !.repo = repo, !.asset_name = a, !.version = v,
                           !.path = "download", !.pre = fs, !.progress = progress,
                           !.result = <<"running">>],
            a, v)
    /\ ncalls' = ncalls + 1
    /\ UNCHANGED <<fs, prev>>

\* self.fetch(&url, dest).await, whose result download_asset returns
DownloadAssetFetch ==
    /\ pc = "fetch"
    /\ call.path = "download"
    /\ \E resp \in FetchResponses :
        LET r == fetch(fs, call.url, resp)
        IN  /\ fs' = r.fs
            /\ Finish(Fetched(call, fs, resp, r),
                      IF r.ok THEN Ok ELSE Err(<<"fetch failed">>))
    /\ UNCHANGED <<prev, ncalls>>

NextFetch ==
    \/ DownloadAssetCall
    \/ DownloadAssetFetch

SpecFetch == InitFetch /\ [][NextFetch]_vars

(***************************************************************************)
(* A caller that uses the version file alone, as the round-trip test       *)
(* does: create_version_file, get_installed_version, and the removal of    *)
(* the directory at the end of the test.                                   *)
(***************************************************************************)
\* the tags create_version_file is given
RoundTripTags == {TagV1, TagQuoted, TagBackslash, TagEscaped, Empty}

\* install.create_version_file(t), up to create_dir_all
CreateVersionFileCall ==
    /\ pc = "idle"
    /\ ncalls < MaxCalls
    /\ \E repo \in Repos, t \in RoundTripTags :
        call' = [NoCall EXCEPT !.repo = repo, !.version = t, !.resolved = t,
                               !.path = "create", !.pre = fs,
                               !.result = <<"running">>]
    /\ pc' = "cvf"
    /\ prev' = Summary(call)
    /\ ncalls' = ncalls + 1
    /\ UNCHANGED <<fs, lv, ever_installed>>

\* install.get_installed_version()
GetInstalledVersion ==
    /\ pc = "idle"
    /\ LET r == get_installed_version(fs)
       IN  call' = [call EXCEPT !.got =
                       [done |-> TRUE, existed |-> Exists(fs, version_file_path),
                        ok |-> r.ok, err |-> r.err, info |-> r.info]]
    /\ UNCHANGED <<fs, pc, prev, lv, ncalls, ever_installed>>

\* std::fs::remove_dir_all(&dir) of the test; the Install is dropped
RemoveTestDir ==
    /\ pc = "idle"
    /\ fs.dir
    /\ fs' = NoDirectory
    /\ call' = NoCall
    /\ UNCHANGED <<pc, prev, lv, ncalls, ever_installed>>

NextVersionFile ==
    \/ CreateVersionFileCall
    \/ CreateVersionFileOpen
    \/ CreateVersionFileWrite
    \/ GetInstalledVersion
    \/ RemoveTestDir

SpecVersionFile == Init /\ [][NextVersionFile]_vars

(***************************************************************************)
(* Vocabulary of the properties.                                           *)
(***************************************************************************)
\* an install_asset call has returned and nothing runs
Finished == pc = "idle" /\ call.path # "none"

\* the version state a directory holds: [ok, info]; ok is FALSE when the
\* file is missing, unreadable or no complete record
StateOf(f) ==
    LET raw == ReadToString(f, version_file_path)
    IN  IF raw.ok THEN FromJsonStr(raw.text) ELSE ParseError

\* the directory held a complete record naming another repository when the
\* call began
ForeignBefore(c) == StateOf(c.pre).ok /\ StateOf(c.pre).info.repo # c.repo

\* the call sent nothing to the network and touched nothing on disk
PureNoOp(c) ==
    /\ c.api = 0 /\ c.dl = 0 /\ c.ex = 0 /\ c.rm = 0 /\ c.wr = 0
    /\ fs = c.pre

\* a download_asset call has returned
Downloaded1 == Finished /\ call.path = "download"

\* the paths below the directory that the last call added
NewPaths == DOMAIN fs.files \ DOMAIN call.pre.files

\* p is q or an ancestor of q
IsPrefix(p, q) == Len(p) <= Len(q) /\ SubSeq(q, 1, Len(p)) = p

\* where the entry of the unpacked archive goes, below the destination
OutPath(url, e) ==
    IF ArchiveKind(url) = "Zip" THEN mangled_name(e.name) ELSE StripTopLevel(e.path)

\* the path p, joined to the destination, leaves it: at some component the
\* ".." outnumber the names before them (depth: names minus ".." before i)
RECURSIVE LeavesDest(_, _, _)
LeavesDest(p, i, depth) ==
    IF i > Len(p) THEN FALSE
    ELSE IF p[i] = <<".", ".">> THEN depth = 0 \/ LeavesDest(p, i + 1, depth - 1)
    ELSE IF p[i] = <<"/">> THEN TRUE
    ELSE LeavesDest(p, i + 1, depth + 1)

\* the kind of filesystem object an entry of a tar archive stands for
EntryKind(type) ==
    IF type = "Directory" THEN "dir" ELSE IF type = "Symlink" THEN "link" ELSE "file"

(***************************************************************************)
(* C1: after a first install_asset call with allow_upgrade = false on a    *)
(* directory without version state that returned Ok, a second call with    *)
(* allow_upgrade = false returns Ok as a pure no-op: the first call made   *)
(* the one download and wrote the state, the second sends no request and   *)
(* leaves the directory and the version state as they were.                *)
(***************************************************************************)
C1_FirstThenSecond ==
    /\ Finished
    /\ ~call.allow_upgrade
    /\ prev.path # "none"
    /\ ~prev.allow_upgrade
    /\ ~prev.installed_before
    /\ prev.result = "ok"

C1_SecondInstallIsNoOp ==
    C1_FirstThenSecond =>
        /\ prev.path = "fresh" /\ prev.dl = 1 /\ prev.wr = 1
        /\ call.path = "noop"
        /\ call.result = Ok
        /\ PureNoOp(call)
        /\ StateOf(fs).ok
        /\ prev.dl + call.dl = 1

C1_Witness ==
    /\ C1_FirstThenSecond
    /\ call.path = "noop"
    /\ prev.path = "fresh"
    /\ prev.ex = 1

(***************************************************************************)
(* C2: an allow_upgrade = true call on a directory whose record names the  *)
(* configured repository, when the resolved latest tag equals the          *)
(* persisted tag, returns Ok with no asset download, no extraction, and    *)
(* the directory and the version state unchanged.                          *)
(***************************************************************************)
C2_UpToDate ==
    /\ Finished
    /\ call.allow_upgrade
    /\ StateOf(call.pre).ok
    /\ StateOf(call.pre).info.repo = call.repo
    /\ call.checked # <<>>
    /\ call.checked = StateOf(call.pre).info.tag_name

C2_UpgradeSkipLeavesAll ==
    C2_UpToDate =>
        /\ call.result = Ok
        /\ call.dl = 0 /\ call.ex = 0 /\ call.rm = 0 /\ call.wr = 0
        /\ fs = call.pre

C2_Witness == C2_UpToDate /\ call.api = 1 /\ DOMAIN fs.files # {version_file_path}

(***************************************************************************)
(* C3: an allow_upgrade = true call on a directory whose record names      *)
(* another repository returns the foreign-installation error and removes   *)
(* or rewrites nothing.                                                    *)
(***************************************************************************)
C3_ForeignUpgradeFails ==
    (Finished /\ call.allow_upgrade /\ ForeignBefore(call)) =>
        /\ IsErr(call.result)
        /\ Contains(call.result, "installed version is for a different repository")
        /\ call.rm = 0 /\ call.wr = 0
        /\ fs = call.pre

C3_Witness == Finished /\ call.allow_upgrade /\ ForeignBefore(call)

(***************************************************************************)
(* C4: when an upgrade has removed the install directory and then fails    *)
(* in version resolution or in the download, no version file exists        *)
(* afterwards, and the next install_asset call takes the fresh-install     *)
(* path.                                                                   *)
(***************************************************************************)
UpgradeFailureStages == {"error getting latest version", "error downloading asset"}

C4_PrevUpgradeFailed ==
    /\ prev.path = "upgrade"
    /\ prev.rm = 1
    /\ prev.result = "err"
    /\ prev.stage \in UpgradeFailureStages

C4_FailedUpgradeLeavesNoState ==
    /\ (/\ Finished
        /\ call.path = "upgrade"
        /\ call.rm = 1
        /\ IsErr(call.result)
        /\ call.result[2] \in UpgradeFailureStages)
       => ~Exists(fs, version_file_path)
    /\ (call.path # "none" /\ C4_PrevUpgradeFailed) => call.path = "fresh"

C4_Witness == Finished /\ C4_PrevUpgradeFailed /\ call.path = "fresh"

(***************************************************************************)
(* C5: whenever nothing runs, the version file exists if and only if some  *)
(* fresh install or upgrade on the directory has returned Ok.              *)
(***************************************************************************)
C5_StateIffInstalled ==
    pc = "idle" => (Exists(fs, version_file_path) <=> ever_installed)

(***************************************************************************)
(* C6: a latest_version call whose every attempt fails makes exactly       *)
(* retry_count attempts and returns the error that embeds the failure of   *)
(* the last attempt; no call makes more than retry_count attempts.         *)
(***************************************************************************)
C6_RetryExhaustion ==
    /\ (pc = "lv_ret" /\ IsErr(lv.result)) =>
            /\ lv.attempts = lv.retry_count
            /\ lv.result = Err(<<"unable to fetch latest version", lv.last_fail>>)
    /\ pc \in {"lv", "lv_ret"} => lv.attempts <= lv.retry_count

C6_Witness ==
    /\ pc = "lv_ret"
    /\ IsErr(lv.result)
    /\ lv.cont = "direct"
    /\ lv.retry_count = 3
    /\ lv.attempts = 3
    /\ lv.last_fail = "parse"

(***************************************************************************)
(* C7 as claimed: every install_asset call, with either allow_upgrade, on  *)
(* a directory whose record names another repository returns an error.     *)
(***************************************************************************)
C7_ForeignAlwaysFails ==
    (Finished /\ ForeignBefore(call)) => IsErr(call.result)

(***************************************************************************)
(* C7 as amended: a call on a directory whose record names another         *)
(* repository never overwrites or removes that state; it returns the       *)
(* foreign-installation error when allow_upgrade is true and returns Ok    *)
(* as a no-op when allow_upgrade is false.                                 *)
(***************************************************************************)
C7_ForeignNeverOverwritten ==
    (Finished /\ ForeignBefore(call)) =>
        /\ fs = call.pre
        /\ call.rm = 0 /\ call.wr = 0 /\ call.dl = 0
        /\ IF call.allow_upgrade
           THEN call.result =
                    Err(<<"installed version is for a different repository">>)
           ELSE call.result = Ok /\ call.path = "noop"

C7_Witness == Finished /\ ForeignBefore(call) /\ ~call.allow_upgrade

(***************************************************************************)
(* C8: in no reachable state does the version file exist with a content    *)
(* other than one complete record.                                         *)
(***************************************************************************)
C8_NeverPartial ==
    Exists(fs, version_file_path) => StateOf(fs).ok

(***************************************************************************)
(* C9: a fresh install that returns Ok leaves the record {resolved         *)
(* version, configured repo}: an explicit version is persisted as given    *)
(* with no resolution call, "latest" is resolved and the tag the           *)
(* resolution returned is persisted; the version file is written only      *)
(* after the fetch has returned Ok.                                        *)
(***************************************************************************)
C9_FreshInstallPersists ==
    /\ (call.path = "fresh" /\ (pc \in {"cvf", "cvf_write"} \/ call.wr > 0))
         => (call.fetch_ok /\ call.dl = 1)
    /\ (Finished /\ call.path = "fresh" /\ call.result = Ok)
         => /\ StateOf(fs).ok
            /\ StateOf(fs).info.repo = call.repo
            /\ IF call.version # Empty
               THEN /\ StateOf(fs).info.tag_name = call.version
                    /\ call.resolutions = <<>>
                    /\ call.api = 0
               ELSE /\ Len(call.resolutions) = 2
                    /\ StateOf(fs).info.tag_name = call.resolutions[2]

C9_Witness ==
    /\ Finished /\ call.path = "fresh" /\ call.result = Ok
    /\ call.version = Empty
    /\ call.ex = 1

(***************************************************************************)
(* C10: an upgrade (state exists, allow_upgrade, same repository, the      *)
(* resolved tag differs) that has removed the directory and is served the  *)
(* download by the host re-installs and ends with the record {new tag,     *)
(* configured repo}, unless writing the version file itself fails.         *)
(***************************************************************************)
C10_UpgradeReinstalls ==
    (Finished /\ call.path = "upgrade" /\ call.rm = 1 /\ call.served) =>
        \/ /\ call.result = Ok
           /\ StateOf(fs).ok
           /\ StateOf(fs).info = VersionInfo(call.latest, call.repo)
        \/ Contains(call.result, "error writing version info")

(***************************************************************************)
(* C11: get_installed_version after a create_version_file(t) that returned *)
(* Ok on an Install configured with r returns the record {tag_name t,      *)
(* repo r}, for tags with quotes and backslashes too; on a directory       *)
(* without a version file it returns the read error and no record.         *)
(***************************************************************************)
C11_RoundTrip ==
    /\ (call.got.done /\ call.path = "create" /\ call.result = Ok) =>
            /\ call.got.ok
            /\ call.got.info = VersionInfo(call.resolved, call.repo)
    /\ (call.got.done /\ ~call.got.existed) =>
            /\ ~call.got.ok
            /\ call.got.err = <<"error reading version info file">>
            /\ call.got.info = NoInfo

C11_Witness ==
    /\ call.got.done /\ call.path = "create" /\ call.result = Ok
    /\ call.resolved = TagEscaped
    /\ call.repo = RepoCD
    /\ prev.path = "none"

(***************************************************************************)
(* C12: the URL download_asset requests for repository r, asset name a and *)
(* explicit version v is exactly "https://github.com/" r                   *)
(* "/releases/download/" v "/" a, built before any request is sent and     *)
(* with no call of the releases API; owner/repo, asset.zip, v1.0.0 gives   *)
(* https://github.com/owner/repo/releases/download/v1.0.0/asset.zip.       *)
(***************************************************************************)
C12_UrlByVersion ==
    /\ get_release_asset_url_by_version(
           <<"o","w","n","e","r","/","r","e","p","o">>,
           <<"a","s","s","e","t",".","z","i","p">>,
           <<"v","1",".","0",".","0">>)
       = <<"h","t","t","p","s",":","/","/","g","i","t","h","u","b",".","c","o","m","/","o","w","n","e","r","/","r","e","p","o">>
         \o <<"/","r","e","l","e","a","s","e","s","/","d","o","w","n","l","o","a","d","/">>
         \o <<"v","1",".","0",".","0","/","a","s","s","e","t",".","z","i","p">>
    /\ (pc = "fetch" /\ call.path = "download") =>
            /\ call.url = <<"h","t","t","p","s",":","/","/","g","i","t","h","u","b",".","c","o","m","/">> \o call.repo
                           \o <<"/","r","e","l","e","a","s","e","s","/","d","o","w","n","l","o","a","d","/">>
                           \o call.version \o <<"/">> \o call.asset_name
            /\ call.api = 0
            /\ call.dl = 0

C12_Witness ==
    /\ pc = "fetch" /\ call.path = "download"
    /\ call.repo = RepoCD /\ call.version = TagV2 /\ call.asset_name = AssetZip

(***************************************************************************)
(* C13 as claimed: after a tar+gzip extraction into D that returned Ok,    *)
(* every entry c1/c2/.../cn with n >= 2, whatever its type, is             *)
(* materialised as an object of its type at D/c2/.../cn; nothing is        *)
(* created for an entry whose stripped path is empty, and no created path  *)
(* holds the top-level component.                                          *)
(***************************************************************************)
C13_TarDone ==
    /\ Downloaded1
    /\ ArchiveKind(call.url) = "TarGz"
    /\ call.fetch_ok

C13_OnlyStrippedPaths ==
    /\ \A p \in NewPaths :
         \E k \in 1..Len(call.entries) :
            LET c == PathComponents(call.entries[k].path)
            IN  Len(c) >= 2 /\ IsPrefix(p, Tail(c))
    /\ \A p \in NewPaths : \A k \in 1..Len(call.entries) : \A i \in 1..Len(p) :
         p[i] # PathComponents(call.entries[k].path)[1]

C14_DownloadCompleted ==
    /\ Downloaded1
    /\ call.progress
    /\ call.net = "ok"
    /\ ArchiveKind(call.url) = "Raw" => call.fetch_ok

C14_OneFinalEvent ==
    C14_DownloadCompleted =>
        LET ev == call.events
            n  == Len(ev)
        IN  /\ n >= 1
            /\ ev[n].complete
            /\ ev[n].downloaded = Downloaded(call.chunks, Len(call.chunks))
            /\ \A i \in 1..(n - 1) :
                    /\ ~ev[i].complete
                    /\ ev[i].downloaded <= ev[i + 1].downloaded
            /\ \A i \in 1..n : ev[i].src = call.url
            /\ ArchiveKind(call.url) = "Raw" =>
                    /\ n = Len(call.chunks) + 1
                    /\ \A i \in 1..Len(call.chunks) :
                            ev[i].downloaded = Downloaded(call.chunks, i)

C14_Witness ==
    /\ C14_DownloadCompleted
    /\ ArchiveKind(call.url) = "Raw"
    /\ call.chunks = <<ChunkBig, ChunkSmall, ChunkBig>>
    /\ Len(call.events) = 4

(***************************************************************************)
(* C15: a fetch whose response has a non-success status returns an error   *)
(* after that one request, adds or changes no file below the destination,  *)
(* starts no extraction and reports no progress event.                     *)
(***************************************************************************)
C15_StatusIsFatal ==
    (Downloaded1 /\ call.net = "status") =>
        /\ IsErr(call.result)
        /\ call.dl = 1
        /\ call.ex = 0
        /\ fs.files = call.pre.files
        /\ call.events = <<>>

C15_Witness ==
    /\ Downloaded1 /\ call.net = "status"
    /\ call.progress
    /\ ArchiveKind(call.url) = "Zip"
    /\ call.chunks = <<ChunkSmall>>

(***************************************************************************)
(* C16: within one install_asset call the asset URL is requested at most   *)
(* once and extraction is started at most once; when the fetch fails the   *)
(* call returns "error downloading asset" at once: no version file is      *)
(* written, no version is resolved afterwards, and no archive entry from   *)
(* the failing one on is extracted.                                        *)
(***************************************************************************)
C16_FetchFailed ==
    /\ Finished
    /\ call.path \in {"fresh", "upgrade"}
    /\ call.net # ""
    /\ ~call.fetch_ok

C16_NoRetryOfDownload ==
    /\ call.dl <= 1
    /\ call.ex <= 1
    /\ C16_FetchFailed =>
            /\ call.result = Err(<<"error downloading asset">>)
            /\ call.wr = 0
            /\ call.path = "fresh" =>
                    Len(call.resolutions) = (IF call.version = Empty THEN 1 ELSE 0)
            /\ \A k \in 1..Len(call.entries) :
                    k >= call.failAt => OutPath(call.url, call.entries[k]) \notin NewPaths

C16_Witness ==
    /\ C16_FetchFailed
    /\ call.path = "fresh"
    /\ call.dl = 1 /\ call.ex = 1
    /\ call.failAt = 2
    /\ ArchiveKind(call.url) = "Zip"
    /\ NewPaths = {<<<<"b">>>>}

(***************************************************************************)
(* C17: a fetch (raw download, zip unpack, tar+gzip unpack) never creates, *)
(* overwrites or deletes the version file of the destination, whatever     *)
(* the asset name or the archive entries are.                              *)
(***************************************************************************)
C17_FetchLeavesVersionFile ==
    Downloaded1 =>
        /\ Exists(fs, version_file_path) <=> Exists(call.pre, version_file_path)
        /\ Exists(fs, version_file_path) =>
                fs.files[version_file_path] = call.pre.files[version_file_path]

(***************************************************************************)
(* C18: a latest_version call that has made k attempts has suspended for   *)
(* the retry delay exactly k - 1 times when it returns: the delay falls    *)
(* only between two attempts, never after the last one.                    *)
(***************************************************************************)
C18_DelayOnlyBetweenAttempts ==
    (pc = "lv_ret" /\ lv.attempts >= 1) => lv.sleeps = lv.attempts - 1

(***************************************************************************)
(* C19: in latest_version a failed attempt of any kind (client, transport, *)
(* status, parse) never ends the call while attempts remain: a further     *)
(* attempt follows, and the error is returned only after retry_count       *)
(* attempts; a successful attempt ends the call at once with its tag, as   *)
(* the first success after failures only.                                  *)
(***************************************************************************)
C19_RetryOnAnyFailure ==
    /\ pc = "lv" =>
            /\ lv.result = <<"running">>
            /\ lv.attempts = lv.i
            /\ lv.attempts >= 1 => lv.last_fail \in ErrKinds
            /\ lv.attempts < lv.retry_count =>
                    (ENABLED LvAttemptFail) /\ (ENABLED LvAttemptOk)
    /\ (pc = "lv_ret" /\ IsErr(lv.result)) =>
            /\ lv.attempts = lv.retry_count
            /\ lv.i = lv.retry_count
    /\ (pc = "lv_ret" /\ ~IsErr(lv.result)) =>
            /\ lv.result[1] = "ok"
            /\ lv.result[2] \in Tags
            /\ lv.attempts = lv.i + 1
            /\ lv.attempts <= lv.retry_count

C19_Witness ==
    /\ pc = "lv_ret"
    /\ lv.result = <<"ok", TagV2>>
    /\ lv.retry_count = 4
    /\ lv.attempts = 3
    /\ lv.last_fail = "status"

(***************************************************************************)
(* C20: the upgrade path's download_asset call with the empty asset name   *)
(* makes the fetch layer derive the remote location of the asset: the URL  *)
(* the upgrade requests names an asset of the latest release.              *)
(***************************************************************************)
C20_EmptyNameLocatesAsset ==
    (pc = "fetch" /\ call.path = "upgrade") =>
        /\ StartsWith(call.url,
                      GithubHost \o call.repo \o ReleasesDownload \o call.latest \o <<"/">>)
        /\ LastSegment(call.url) # <<>>

(***************************************************************************)
(* C21: an install_asset call with allow_upgrade = true on a directory     *)
(* that holds a version file reads, parses and compares the record before  *)
(* any request and any removal: when the file is unreadable, no complete   *)
(* record, or names another repository, the call fails with no request     *)
(* sent and the directory as it was; a call that has sent a request or     *)
(* removed the directory had read a record of its own repository.          *)
(***************************************************************************)
C21_UpgradeOnState ==
    /\ call.path # "none"
    /\ call.allow_upgrade
    /\ Exists(call.pre, version_file_path)

C21_BadState ==
    ~(StateOf(call.pre).ok /\ StateOf(call.pre).info.repo = call.repo)

C21_CheckBeforeEffects ==
    /\ (C21_UpgradeOnState /\ C21_BadState) =>
            /\ Finished
            /\ IsErr(call.result)
            /\ call.api = 0 /\ call.dl = 0 /\ call.rm = 0 /\ call.wr = 0
            /\ call.resolutions = <<>>
            /\ fs = call.pre
    /\ (C21_UpgradeOnState /\ (call.api > 0 \/ call.rm > 0 \/ fs # call.pre)) =>
            ~C21_BadState

C21_Witness ==
    /\ C21_UpgradeOnState
    /\ ~StateOf(call.pre).ok
    /\ call.result = Err(<<"error parsing version info">>)

(***************************************************************************)
(* C22: fetch chooses its strategy from the URL alone: tar+gzip            *)
(* extraction iff the URL ends with ".tar.gz", zip extraction iff it ends  *)
(* with ".zip", and otherwise streaming to                                 *)
(* <destination>/<last segment of the URL>; exactly one strategy runs for  *)
(* every URL.                                                              *)
(***************************************************************************)
\* asset names and the strategy expected for a URL that ends with them
C22_Dispatch ==
    {<<<<"a",".","z","i","p">>, "Zip">>,
     <<<<"p",".","t","a","r",".","g","z">>, "TarGz">>,
     <<<<"a",".","z","i","p",".","t","a","r",".","g","z">>, "TarGz">>,
     <<<<"a",".","t","a","r",".","g","z",".","z","i","p">>, "Zip">>,
     <<<<".","z","i","p">>, "Zip">>,
     <<<<".","t","a","r",".","g","z">>, "TarGz">>,
     <<<<"a",".","Z","I","P">>, "Raw">>,
     <<<<"a",".","t","g","z">>, "Raw">>,
     <<<<"a",".","t","a","r">>, "Raw">>,
     <<<<"z","i","p">>, "Raw">>,
     <<<<>>, "Raw">>,
     <<<<"a",".","t","a","r",".","g","z","/">>, "Raw">>,
     <<<<"a",".","z","i","p","?","x">>, "Raw">>,
     <<<<"t">>, "Raw">>}

C22_DispatchBySuffix ==
    /\ \A row \in C22_Dispatch :
            ArchiveKind(GithubHost \o RepoAB \o <<"/">> \o row[1]) = row[2]
    /\ (Downloaded1 /\ call.net = "ok") =>
            LET tar == EndsWith(call.url, <<".","t","a","r",".","g","z">>)
                zip == EndsWith(call.url, <<".","z","i","p">>)
                raw == <<LastSegment(call.url)>>
            IN  /\ ~(tar /\ zip)
                /\ tar =>
                      /\ call.ex = 1
                      /\ raw \notin NewPaths
                      /\ call.fetch_ok =>
                            \A k \in 1..Len(call.entries) :
                                DOMAIN call.entries[k] = {"path", "type", "link"}
                /\ zip =>
                      /\ call.ex = 1
                      /\ raw \notin NewPaths
                      /\ call.fetch_ok =>
                            \A k \in 1..Len(call.entries) :
                                DOMAIN call.entries[k] = {"name"}
                /\ (~tar /\ ~zip) =>
                      /\ call.ex = 0
                      /\ call.entries = <<>>
                      /\ call.fetch_ok =>
                            /\ raw \in DOMAIN fs.files
                            /\ fs.files[raw] = FileEntry(PayloadBytes(call.chunks))

C22_Witness ==
    /\ Downloaded1 /\ call.net = "ok" /\ call.fetch_ok
    /\ EndsWith(call.url, <<".","t","a","r",".","g","z">>)
    /\ call.entries = BodyTar1.entries

(***************************************************************************)
(* C23: an in-memory download (zip or tar.gz URL) with a progress callback *)
(* reports a non-final event after a chunk exactly when the number of      *)
(* whole 100 MiB received grew with that chunk, one event at most per      *)
(* chunk, carrying the bytes received so far; a body below 100 MiB gives   *)
(* no non-final event.                                                     *)
(***************************************************************************)
\* the byte counts after the chunks from k on with which a multiple of 100 MiB
\* was reached or crossed
RECURSIVE C23_Crossings(_, _)
C23_Crossings(chunks, k) ==
    IF k > Len(chunks) THEN <<>>
    ELSE (IF (Downloaded(chunks, k) \div 104857600)
               > (Downloaded(chunks, k - 1) \div 104857600)
          THEN <<Downloaded(chunks, k)>>
          ELSE <<>>)
         \o C23_Crossings(chunks, k + 1)

C23_InMemory ==
    /\ Downloaded1
    /\ call.progress
    /\ ArchiveKind(call.url) # "Raw"
    /\ call.net \in {"ok", "stream"}

C23_ReportsPerStep ==
    C23_InMemory =>
        LET nonfinal == SelectSeq(call.events, LAMBDA e : ~e.complete)
        IN  /\ [i \in 1..Len(nonfinal) |-> nonfinal[i].downloaded]
                    = C23_Crossings(call.chunks, 1)
            /\ Len(nonfinal) <= Len(call.chunks)
            /\ Downloaded(call.chunks, Len(call.chunks)) < 104857600 => nonfinal = <<>>

C23_Witness ==
    /\ C23_InMemory
    /\ call.chunks = <<ChunkBig, ChunkRest, ChunkSmall>>
    /\ Len(call.events) = 2
    /\ call.events[1].downloaded = 104857600

(***************************************************************************)
(* C24: after an install_asset call that downloaded an asset and returned  *)
(* Ok, the persisted tag is the tag of the release the asset was           *)
(* downloaded from, whatever the resolutions of "latest" within the call   *)
(* returned.                                                               *)
(***************************************************************************)
C24_PersistedTagIsDownloadedTag ==
    (Finished /\ call.result = Ok /\ call.dl = 1) =>
        /\ StateOf(fs).ok
        /\ StartsWith(call.url,
                      GithubHost \o call.repo \o ReleasesDownload
                          \o StateOf(fs).info.tag_name \o <<"/">>)

(***************************************************************************)
(* C25: when version resolution fails in an install_asset call on the      *)
(* upgrade path (allow_upgrade = true, version state present), the install *)
(* directory and the version file are exactly as they were before the      *)
(* call.                                                                   *)
(***************************************************************************)
C25_ResolutionFailureLeavesAll ==
    (/\ Finished
     /\ call.allow_upgrade
     /\ Exists(call.pre, version_file_path)
     /\ Contains(call.result, "unable to fetch latest version")) =>
        /\ fs = call.pre
        /\ call.rm = 0

(***************************************************************************)
(* C26: every filesystem object that a tar+gzip extraction into D creates  *)
(* lies inside D, also for entries whose stripped path holds "..".         *)
(***************************************************************************)
C26_TarStaysInside ==
    (Downloaded1 /\ ArchiveKind(call.url) = "TarGz") =>
        \A p \in NewPaths : ~LeavesDest(p, 1, 0)

====
